---------------------------- MODULE Spec2Model ----------------------------
(***************************************************************************)
(* A model of the Internet generator module (class Internet): password,    *)
(* mac, userName and color.  Strings are sequences of character codes, an  *)
(* optional argument is <<>> (undefined) or <<v>> (supplied), and every    *)
(* random draw faker.datatype.number(max) is an input of the action that   *)
(* consumes it.                                                            *)
(***************************************************************************)
EXTENDS Integers, Sequences, FiniteSets

VARIABLES
    pc,         \* "idle" | "_password" | "done": where the session is
    args,       \* the arguments of the call being served
    length,     \* _password's parameter length
    memorable,  \* _password's parameter memorable
    pattern,    \* _password's parameter pattern (reassigned in memorable mode)
    prefix,     \* _password's parameter prefix
    char,       \* the candidate of the latest _password invocation, <<>> if none
    draws,      \* the draws that mac, userName or color consumed
    result      \* the value returned to the caller, <<>> while there is none

vars == <<pc, args, length, memorable, pattern, prefix, char, draws, result>>

---------------------------------------------------------------------------
(* Bounds of the model                                                     *)

\* the largest requested password length
MaxLen == 3

\* the most characters a modelled password call has to append
MaxAppend == 3

---------------------------------------------------------------------------
(* Optional arguments and strings                                          *)

None == <<>>

Some(v) == <<v>>

\* a parameter default (f(x = d)): used when the argument is undefined
Default(opt, d) == IF opt = None THEN d ELSE opt[1]

Digits == 48 .. 57

Upper == 65 .. 90

Lower == 97 .. 122

\* the codes the model's strings are made of (ASCII)
Codes == 0 .. 127

\* String.prototype.toLowerCase on one UTF-16 unit of the ASCII range
toLowerCase(c) == IF c \in Upper THEN c + 32 ELSE c

\* String.fromCharCode(n): the one-unit string holding code n
fromCharCode(n) == <<n>>

\* the digit character of a digit value below 36: 0-9, then a-z
DigitChar(v) == IF v < 10 THEN 48 + v ELSE 87 + v

\* Number.prototype.toString(radix) of an integer n >= 0
RECURSIVE toString(_, _)
toString(n, radix) ==
    IF n < radix
    THEN <<DigitChar(n)>>
    ELSE toString(n \div radix, radix) \o <<DigitChar(n % radix)>>

\* str.replace(/c/g, ''): str without its characters of code c
RECURSIVE RemoveAll(_, _)
RemoveAll(str, c) ==
    IF str = <<>>
    THEN <<>>
    ELSE (IF Head(str) = c THEN <<>> ELSE <<Head(str)>>) \o RemoveAll(Tail(str), c)

\* whether sub occurs in str
Contains(str, sub) ==
    \E i \in 0 .. Len(str) - Len(sub) : SubSeq(str, i + 1, i + Len(sub)) = sub

---------------------------------------------------------------------------
(* Regular expressions: a pattern is named by its source text              *)

\* the pattern default of _password
WordPattern == "\\w"

vowel == "[aeiouAEIOU]$"

consonant == "[bcdfghjklmnpqrstvwxyzBCDFGHJKLMNPQRSTVWXYZ]$"

VowelCodes == {97, 101, 105, 111, 117, 65, 69, 73, 79, 85}

\* the character class a pattern's single atom stands for
Class(p) ==
    CASE p = "\\w" -> Digits \cup Upper \cup Lower \cup {95}
      [] p = "\\W" -> Codes \ (Digits \cup Upper \cup Lower \cup {95})
      [] p = "[A-Z]" -> Upper
      [] p = "\\s" -> {9, 10, 11, 12, 13, 32}
      [] p = vowel -> VowelCodes
      [] p = consonant -> (Upper \cup Lower) \ VowelCodes

\* whether the pattern ends in the end-of-input assertion $
Anchored(p) == p \in {vowel, consonant}

\* str.match(p) is not null
Matches(str, p) ==
    IF Anchored(p)
    THEN Len(str) > 0 /\ str[Len(str)] \in Class(p)
    ELSE \E i \in 1 .. Len(str) : str[i] \in Class(p)

---------------------------------------------------------------------------
(* The random provider                                                     *)

\* faker.datatype.number(max): an integer of 0 .. max, both ends included
number(max) == 0 .. max

\* faker.random.arrayElement(list): one of the list's elements
arrayElement(list) == {list[i] : i \in 1 .. Len(list)}

\* the character codes whose draws the model enumerates:
\* ! A B _ a b z DEL
SampleCodes == {33, 65, 66, 95, 97, 98, 122, 127}

---------------------------------------------------------------------------
(* password                                                                *)

\* len = len || 15
DefaultLen == 15

\* the first code of the candidate range: number(94) + 33
CharBase == 33

\* the max handed to faker.datatype.number for a candidate
CharSpan == 94

EffectiveLen(len) == IF len = None \/ len[1] = 0 THEN DefaultLen ELSE len[1]

\* if (memorable == null) memorable = false
EffectiveMemorable(m) == IF m = None THEN FALSE ELSE m[1]

\* the pattern a _password invocation tests its candidate against
ActivePatternIgnoringMemorable(mem, pat, pre) == pat

ActivePattern(mem, pat, pre) ==
    IF mem
    THEN IF Matches(pre, consonant) THEN vowel ELSE consonant
    ELSE pat

\* the candidate of a draw d: String.fromCharCode(d + 33), lower-cased in
\* memorable mode
CandidateNotLowered(d, mem) == d + CharBase

Candidate(d, mem) ==
    LET n == d + CharBase
    IN  IF mem THEN toLowerCase(n) ELSE n

\* the draws a _password invocation can receive
CharDraws == {d \in number(CharSpan) : d + CharBase \in SampleCodes}

\* the argument values the model calls password with
LenArgs == {None} \cup {Some(l) : l \in 0 .. MaxLen}

MemorableArgs == {None, Some(TRUE), Some(FALSE)}

PatternArgs == {None, Some("[A-Z]"), Some("\\W"), Some("\\s")}

Str_abcdef == <<97, 98, 99, 100, 101, 102>>

Str_14 == <<97, 98, 99, 100, 101, 102, 103, 104, 105, 106, 107, 108, 109, 110>>

Str_16 == Str_14 \o <<111, 112>>

PrefixArgs ==
    {None, Some(<<>>), Some(<<98>>), Some(<<65>>), Some(<<66>>), Some(<<33>>),
     Some(Str_abcdef), Some(Str_14), Some(Str_16)}

\* the documented call password(20, true, /[A-Z]/)
ExampleLen == 20

DocExample == <<Some(ExampleLen), Some(TRUE), Some("[A-Z]"), None>>

\* the calls the model makes: those that append at most MaxAppend characters,
\* and the documented example
Modelled(len, mem, pat, pre) ==
    \/ EffectiveLen(len) - Len(Default(pre, <<>>)) <= MaxAppend
    \/ <<len, mem, pat, pre>> = DocExample

\* the terminal test of _password: prefix.length >= length
TerminalOffByOne(pre, len) == Len(pre) > len

Terminal(pre, len) == Len(pre) >= len

\* password(len, memorable, pattern, prefix) up to its call of _password
password(len, mem, pat, pre) ==
    /\ pc = "idle"
    /\ Modelled(len, mem, pat, pre)
    /\ args' = [op |-> "password", len |-> len, memorable |-> mem,
                pattern |-> pat, prefix |-> pre]
    /\ length' = EffectiveLen(len)
    /\ memorable' = EffectiveMemorable(mem)
    /\ pattern' = Default(pat, WordPattern)
    /\ prefix' = Default(pre, <<>>)
    /\ pc' = "_password"
    /\ UNCHANGED <<char, draws, result>>

\* _password: if (prefix.length >= length) return prefix
PasswordReturn ==
    /\ pc = "_password"
    /\ Terminal(prefix, length)
    /\ result' = Some(prefix)
    /\ pc' = "done"
    /\ UNCHANGED <<args, length, memorable, pattern, prefix, char, draws>>

\* _password past the length test, with draw d: the pattern is reassigned in
\* memorable mode, the candidate is tested, and _password is called again
\* with the candidate appended or with the prefix as it is
PasswordDraw(d) ==
    /\ pc = "_password"
    /\ ~Terminal(prefix, length)
    /\ LET p == ActivePattern(memorable, pattern, prefix)
           c == Candidate(d, memorable)
       IN  /\ pattern' = p
           /\ char' = Some(c)
           /\ prefix' = IF Matches(fromCharCode(c), p)
                        THEN prefix \o fromCharCode(c)
                        ELSE prefix
    /\ UNCHANGED <<pc, args, length, memorable, draws, result>>

Init ==
    /\ pc = "idle"
    /\ args = None
    /\ length = 0
    /\ memorable = FALSE
    /\ pattern = WordPattern
    /\ prefix = <<>>
    /\ char = None
    /\ draws = <<>>
    /\ result = None

Next ==
    \/ /\ pc = "idle"
       /\ \E len \in LenArgs \cup {Some(ExampleLen)}, mem \in MemorableArgs,
             pat \in PatternArgs, pre \in PrefixArgs :
              password(len, mem, pat, pre)
    \/ PasswordReturn
    \/ \E d \in CharDraws : PasswordDraw(d)

Spec == Init /\ [][Next]_vars

\* the same session under the scheduling the claims about termination assume:
\* a call runs to completion, and every draw value keeps being drawn
SpecFair ==
    /\ Init
    /\ [][Next]_vars
    /\ WF_vars(PasswordReturn)
    /\ \A d \in CharDraws : WF_vars(PasswordDraw(d))

---------------------------------------------------------------------------
(* Properties of password                                                  *)

\* the prefix the caller supplied ('' when none)
SuppliedPrefix == Default(args.prefix, <<>>)

\* the pattern the caller supplied (/\w/ when none)
SuppliedPattern == Default(args.pattern, "\\w")

IsConsonant(c) == c \in (Upper \cup Lower) \ VowelCodes

\* some drawable character satisfies the constraint of the next invocation
Satisfiable ==
    \E d \in number(CharSpan) :
        Matches(fromCharCode(Candidate(d, memorable)),
                ActivePattern(memorable, pattern, prefix))

\* C1: password(len, false, pattern, prefix) with len >= 1 and a prefix
\* shorter than len returns a string of length exactly len that starts with
\* the prefix and whose every later character matches the pattern (/\w/ when
\* none is supplied).
PasswordContract ==
    ( /\ pc = "done"
      /\ args.memorable \in {None, Some(FALSE)}
      /\ args.len # None
      /\ args.len[1] >= 1
      /\ Len(SuppliedPrefix) < args.len[1] )
    => LET r == result[1]
       IN  /\ Len(r) = args.len[1]
           /\ SubSeq(r, 1, Len(SuppliedPrefix)) = SuppliedPrefix
           /\ \A i \in Len(SuppliedPrefix) + 1 .. Len(r) :
                  Matches(<<r[i]>>, SuppliedPattern)

\* C1 witness: password(3, false, undefined, "!") has returned "!" and two
\* appended characters
PasswordContractWitness ==
    /\ pc = "done"
    /\ args.memorable = Some(FALSE)
    /\ args.len = Some(3)
    /\ args.pattern = None
    /\ args.prefix = Some(<<33>>)
    /\ Len(result[1]) = 3
    /\ result[1][3] = 95

\* C2: password(20, true, /[A-Z]/) returns a string of length 20 whose every
\* character matches /[A-Z]/.
DocExampleMatchesPattern ==
    (pc = "done" /\ <<args.len, args.memorable, args.pattern, args.prefix>> = DocExample)
    => /\ Len(result[1]) = ExampleLen
       /\ \A i \in 1 .. Len(result[1]) : Matches(<<result[1][i]>>, "[A-Z]")

\* C3: with a supplied prefix at least as long as the requested length,
\* password returns exactly that prefix, in either mode and for any pattern.
LongPrefixReturned ==
    (pc = "done" /\ args.len # None /\ Len(SuppliedPrefix) >= args.len[1])
    => result = Some(SuppliedPrefix)

\* C3, the part that holds: for a requested length of at least 1 the prefix is
\* returned as it is.
LongPrefixReturnedFromOne ==
    ( /\ pc = "done"
      /\ args.len # None
      /\ args.len[1] >= 1
      /\ Len(SuppliedPrefix) >= args.len[1] )
    => result = Some(SuppliedPrefix)

\* C3, the part that holds: a value is returned only where the terminal test
\* succeeds, and it is the prefix.
SoleExit == [][result' # result => (Terminal(prefix, length) /\ result' = Some(prefix))]_vars

CandidateBelow127 ==
    /\ char # None => char[1] \in 33 .. 126
    /\ pc = "done" =>
           \A i \in Len(SuppliedPrefix) + 1 .. Len(result[1]) : result[1][i] # 127

\* C10: a rejected candidate leaves the prefix as it is and _password running;
\* under fair draws a call whose next constraint some drawable character
\* satisfies returns, which is every call in memorable mode; a call in
\* non-memorable mode whose pattern no drawable character matches, and whose
\* prefix is shorter than the length, stays in _password for ever.
RejectionLoop ==
    /\ [][(pc = "_password" /\ char' # None
             /\ ~Matches(fromCharCode(char'[1]), pattern'))
          => (prefix' = prefix /\ pc' = "_password")]_vars
    /\ [](pc = "_password" /\ memorable => Satisfiable)
    /\ (pc = "_password" /\ Satisfiable) ~> (pc = "done")
    /\ [][(pc = "_password" /\ ~memorable /\ ~Satisfiable /\ ~Terminal(prefix, length))
          => (pc' = "_password" /\ ~Satisfiable' /\ ~Terminal(prefix', length'))]_vars

\* C10 witness: a memorable call given the unmatchable /\s/ has appended a
\* character and has just had a candidate rejected
RejectionLoopWitness ==
    /\ pc = "_password"
    /\ args.memorable = Some(TRUE)
    /\ args.pattern = Some("\\s")
    /\ Len(prefix) > Len(SuppliedPrefix)
    /\ char # None
    /\ ~Matches(fromCharCode(char[1]), pattern)

\* C10 witness of the other side: a non-memorable call given /\s/ is in
\* _password with a rejected candidate
UnsatisfiableWitness ==
    /\ pc = "_password"
    /\ ~memorable
    /\ ~Satisfiable
    /\ char # None

---------------------------------------------------------------------------
(* mac                                                                     *)

\* if (['-', ''].indexOf(sep) !== -1) validSep = sep, else ':'
ValidSep(sep) == IF sep \in {Some(<<45>>), Some(<<>>)} THEN sep[1] ELSE <<58>>

\* whether the separator follows nibble i: i % 2 === 1 && i !== 11
SepAfterEveryPair(i) == i % 2 = 1

SepAfter(i) == i % 2 = 1 /\ i # 11

\* the loop for (i = 0; i < 12; i++) from iteration i on, ds[i + 1] being the
\* draw of iteration i
RECURSIVE MacLoop(_, _, _, _)
MacLoop(i, str, ds, validSep) ==
    IF i >= 12
    THEN str
    ELSE MacLoop(i + 1,
                 str \o toString(ds[i + 1], 16)
                     \o (IF SepAfter(i) THEN validSep ELSE <<>>),
                 ds, validSep)

\* the separators the model calls mac with: none, ':', '-', '', ';', ' ', '--'
SepArgs ==
    {None, Some(<<58>>), Some(<<45>>), Some(<<>>), Some(<<59>>), Some(<<32>>),
     Some(<<45, 45>>)}

\* the sequences of twelve number(15) draws the model enumerates: every
\* nibble value at every position
MacDraws ==
    {[i \in 1 .. 12 |-> (a + b * (i - 1)) % 16] : a \in number(15), b \in number(15)}

mac(sep, ds) ==
    /\ pc = "idle"
    /\ args' = [op |-> "mac", sep |-> sep]
    /\ draws' = ds
    /\ result' = Some(MacLoop(0, <<>>, ds, ValidSep(sep)))
    /\ pc' = "done"
    /\ UNCHANGED <<length, memorable, pattern, prefix, char>>

\* (a call is made of an idle session: stated first, so that the arguments
\* are enumerated in idle states only)
NextMac == pc = "idle" /\ \E sep \in SepArgs, ds \in MacDraws : mac(sep, ds)

SpecMac == Init /\ [][NextMac]_vars

IsHexDigit(c) == c \in (48 .. 57) \cup (97 .. 102)

\* the value of a lower-case hex digit character
HexVal(c) == IF c <= 57 THEN c - 48 ELSE c - 87

\* C4: mac(sep) is six groups of two lower-case hex digits (the twelve draws in
\* order) joined by s, where s is sep when sep is '-' or '' and ':' otherwise:
\* s follows every pair but the last, so the length is 12 + 5 * |s|.
MacFormat ==
    (pc = "done" /\ args.op = "mac")
    => LET s == IF args.sep \in {Some(<<45>>), Some(<<>>)} THEN args.sep[1] ELSE <<58>>
           r == result[1]
           w == 2 + Len(s)
       IN  /\ Len(r) = 12 + 5 * Len(s)
           /\ Len(r) = IF Len(s) = 1 THEN 17 ELSE 12
           /\ \A k \in 0 .. 5 :
                  /\ IsHexDigit(r[k * w + 1]) /\ HexVal(r[k * w + 1]) = draws[2 * k + 1]
                  /\ IsHexDigit(r[k * w + 2]) /\ HexVal(r[k * w + 2]) = draws[2 * k + 2]
           /\ \A k \in 0 .. 4 : SubSeq(r, k * w + 3, k * w + 2 + Len(s)) = s

\* C4 witness: mac(';') has returned a string whose first group is "af" and
\* whose third character is ':'
MacFormatWitness ==
    /\ pc = "done"
    /\ args.op = "mac"
    /\ args.sep = Some(<<59>>)
    /\ SubSeq(result[1], 1, 3) = <<97, 102, 58>>

---------------------------------------------------------------------------
(* userName                                                                *)

\* x || y on an optional string: y when x is undefined or ''
OrElse(opt, other) == IF opt = None \/ opt[1] = <<>> THEN other ELSE opt[1]

\* the switch on faker.datatype.number(2)
UserNameTemplateFallThrough(t, first, last, sep, k) ==
    first \o sep \o last \o toString(k, 10)

UserNameTemplate(t, first, last, sep, k) ==
    CASE t = 0 -> first \o toString(k, 10)
      [] t = 1 -> first \o sep \o last
      [] t = 2 -> first \o sep \o last \o toString(k, 10)

\* result.replace(/'/g, '') and then result.replace(/ /g, '')
Strip(str) == RemoveAll(RemoveAll(str, 39), 32)

Str_Jeanne == <<74, 101, 97, 110, 110, 101>>

Str_Doe == <<68, 111, 101>>

\* D'Arcy
Str_DArcy == <<68, 39, 65, 114, 99, 121>>

\* De la O
Str_DeLaO == <<68, 101, 32, 108, 97, 32, 79>>

\* Ana
Str_Ana == <<65, 110, 97>>

FirstNameArgs == {None, Some(<<>>), Some(Str_Jeanne), Some(Str_DArcy)}

LastNameArgs == {None, Some(<<>>), Some(Str_Doe), Some(Str_DeLaO)}

\* what faker.name.firstName() and faker.name.lastName() may return
FirstNames == {Str_Ana, Str_DArcy}

LastNames == {Str_Doe, Str_DeLaO}

\* the draws a call consumed: the template, then those of its case
UserNameDraws(t, sep, k) ==
    CASE t = 0 -> <<t, k>>
      [] t = 1 -> <<t, sep>>
      [] t = 2 -> <<t, sep, k>>

userName(firstName, lastName, genFirst, genLast, t, sep, k) ==
    /\ pc = "idle"
    /\ args' = [op |-> "userName", firstName |-> firstName, lastName |-> lastName]
    /\ draws' = UserNameDraws(t, sep, k)
    /\ result' = Some(Strip(UserNameTemplate(t, OrElse(firstName, genFirst),
                                             OrElse(lastName, genLast), sep, k)))
    /\ pc' = "done"
    /\ UNCHANGED <<length, memorable, pattern, prefix, char>>

NextUserName ==
    /\ pc = "idle"
    /\ \E firstName \in FirstNameArgs, lastName \in LastNameArgs,
          genFirst \in FirstNames, genLast \in LastNames,
          t \in number(2), sep \in arrayElement(<< <<46>>, <<95>> >>),
          k \in number(99) :
           userName(firstName, lastName, genFirst, genLast, t, sep, k)

SpecUserName == Init /\ [][NextUserName]_vars

JeanneDoe ==
    /\ pc = "done"
    /\ args.op = "userName"
    /\ args.firstName = Some(Str_Jeanne)
    /\ args.lastName = Some(Str_Doe)

\* C5 as stated: userName("Jeanne", "Doe") contains "Jeanne" and "Doe" and
\* neither an apostrophe nor a space, for every template and draw.
UserNameContainsBoth ==
    JeanneDoe
    => /\ Contains(result[1], Str_Jeanne)
       /\ Contains(result[1], Str_Doe)
       /\ ~Contains(result[1], <<39>>)
       /\ ~Contains(result[1], <<32>>)

\* C5 as amended: userName("Jeanne", "Doe") contains "Jeanne" and neither an
\* apostrophe nor a space for every template and draw; it contains "Doe" when
\* the template draw is 1 or 2, and when the template draw is 0 it is "Jeanne"
\* followed by the decimal number drawn, with no "Doe" in it.
UserNameShape ==
    JeanneDoe
    => /\ Contains(result[1], Str_Jeanne)
       /\ ~Contains(result[1], <<39>>)
       /\ ~Contains(result[1], <<32>>)
       /\ draws[1] \in {1, 2} => Contains(result[1], Str_Doe)
       /\ draws[1] = 0 =>
              /\ result[1] = Str_Jeanne \o toString(draws[2], 10)
              /\ ~Contains(result[1], Str_Doe)

\* C5 witness: userName("Jeanne", "Doe") has returned "Jeanne_Doe7"
UserNameShapeWitness ==
    /\ JeanneDoe
    /\ result[1] = Str_Jeanne \o <<95>> \o Str_Doe \o <<55>>

---------------------------------------------------------------------------
(* color                                                                   *)

\* Math.floor((faker.datatype.number(256) + base) / 2)
Blend(draw, base) == (draw + base) \div 2

\* (str.length === 1 ? '0' : '') + str
PadNever(str) == str

Pad(str) == IF Len(str) = 1 THEN <<48>> \o str ELSE str

\* the returned string: '#' and the three channels in hex
ColorString(red, green, blue) ==
    <<35>> \o Pad(toString(red, 16)) \o Pad(toString(green, 16))
           \o Pad(toString(blue, 16))

\* what the model gives the two channels it is not running through every
\* value: no base with the least draw, or the greatest base with the greatest
RestOfColor == {<<None, 0>>, <<Some(255), 256>>}

color(base, ds) ==
    /\ pc = "idle"
    /\ args' = [op |-> "color", base |-> base]
    /\ draws' = ds
    /\ result' = Some(ColorString(Blend(ds[1], Default(base[1], 0)),
                                  Blend(ds[2], Default(base[2], 0)),
                                  Blend(ds[3], Default(base[3], 0))))
    /\ pc' = "done"
    /\ UNCHANGED <<length, memorable, pattern, prefix, char>>

\* one channel takes every supported base and every draw
NextColor ==
    /\ pc = "idle"
    /\ \E k \in 1 .. 3, b \in 0 .. 255, d \in number(256), o \in RestOfColor :
           color([j \in 1 .. 3 |-> IF j = k THEN Some(b) ELSE o[1]],
                 [j \in 1 .. 3 |-> IF j = k THEN d ELSE o[2]])

SpecColor == Init /\ [][NextColor]_vars

\* C6: with every base in 0 .. 255 and every draw in 0 .. 256, color returns
\* '#' and six lower-case hex digits, seven characters in all, the two digits
\* of each channel spelling floor((draw + base) / 2), which is in 0 .. 255.
ColorFormat ==
    (pc = "done" /\ args.op = "color")
    => LET r == result[1]
       IN  /\ Len(r) = 7
           /\ r[1] = 35
           /\ \A j \in 1 .. 3 :
                  LET v == (draws[j] + Default(args.base[j], 0)) \div 2
                  IN  /\ v \in 0 .. 255
                      /\ IsHexDigit(r[2 * j]) /\ IsHexDigit(r[2 * j + 1])
                      /\ 16 * HexVal(r[2 * j]) + HexVal(r[2 * j + 1]) = v

\* C6 witness: color(255, 255, 9) with draws 256, 256, 0 has returned
\* "#ffff04"
ColorFormatWitness ==
    /\ pc = "done"
    /\ args.op = "color"
    /\ args.base = <<Some(255), Some(255), Some(9)>>
    /\ draws = <<256, 256, 0>>
    /\ result = Some(<<35, 102, 102, 102, 102, 48, 52>>)

=============================================================================
